---- MODULE Spec2Model ----
(***************************************************************************)
(* A model of multibufferedfile: one logical byte stream stored in two     *)
(* alternating slot files `.1` and `.2`, each laid out as                  *)
(*   generation byte ++ payload ++ 4-byte little-endian CRC-32/BZIP2.      *)
(* The model follows src/src/lib.rs (BufferedFile, check_file,             *)
(* wrapping_cmp), src/src/writer.rs and src/src/reader.rs.                 *)
(***************************************************************************)
EXTENDS Integers, Sequences, FiniteSets, TLC

\* ------------------------------------------------------------------ bounds
\* Length of the longest payload a caller of the generation model writes.
MaxPayloadLen == 2
\* Calls of write() in the runs that interrupt a write of a crafted payload.
MaxTornWrites == 3
\* Calls of write() in the runs with payloads around the probe's chunk size.
MaxChunkWrites == 2
\* Calls of write() in the runs in which one byte of a slot file is changed.
MaxCorruptWrites == 2
\* Length of the long payload, in probe chunks.
LongChunks == 2
\* the longest slot file found on a path the caller did not write
MaxFoundLen == 5
\* calls of write() in a run on a found path
MaxFoundWrites == 1
\* the longest slot file on a path whose slots are both broken
MaxBrokenLen == 2
\* the longest distance of one seek in the Reader
MaxSeek == 2
\* calls of write() in a run that seeks in the Reader
MaxSeekWrites == 2
\* calls of write() by the caller in a run with a second process
MaxPeerWrites == 1
\* the longest buffer a foreign caller really has
MaxFfiBuf == 2
\* calls of write() in a run through the C interface
MaxFfiWrites == 1
\* bytes a buffer for the error message has beyond the message itself
MessageSlack == 1

\* ------------------------------------------------------- program constants
\* BUFFER_COUNT (lib.rs:12): the number of slot files.
BUFFER_COUNT == 2
\* The probe's read buffer, `[0u8; 8192]` (lib.rs:69).
ProbeBufLen == 8192
\* The line tool's transfer buffer, `[0u8; 8192]` (cli.rs:39).
TransferBufLen == 8192
\* The trailer is the four bytes of a u32 (writer.rs:38, lib.rs:76).
TrailerLen == 4
\* u8 arithmetic is modulo 2^8.
U8 == 256
\* wrapping_cmp's threshold `x if x < 128` (lib.rs:233).
HalfRange == 128

Slots == 1..BUFFER_COUNT
Byte == 0..(U8 - 1)

Min(a, b) == IF a < b THEN a ELSE b

\* bytes[lo..hi] (1-based, inclusive); empty when lo > hi.
Slice(s, lo, hi) == IF lo > hi THEN <<>> ELSE [i \in 1..(hi - lo + 1) |-> s[lo + i - 1]]

\* A payload of n bytes, all equal to b.
Fill(b, n) == [i \in 1..n |-> b]

\* -------------------------------------------------------- CRC-32/BZIP2
\* crc::CRC_32_BZIP2 (lib.rs:54): width 32, poly 0x04C11DB7, init 0xFFFFFFFF,
\* no reflection, xorout 0xFFFFFFFF.
\* A u32 is held as its four bytes, most significant first (TLC's integers
\* are narrower than 2^32).
CrcPoly == << 4, 193, 29, 183 >>
CrcInit == << 255, 255, 255, 255 >>
CrcXorOut == << 255, 255, 255, 255 >>

RECURSIVE XorBits(_, _, _)
XorBits(a, b, n) ==
    IF n = 0 THEN 0
    ELSE ((a + b) % 2) + 2 * XorBits(a \div 2, b \div 2, n - 1)

\* XOR of two bytes, tabulated once.
Xor8 == [a \in Byte |-> [b \in Byte |-> XorBits(a, b, 8)]]

\* XOR of two 32-bit words.
Xor32(a, b) == [i \in 1..4 |-> Xor8[a[i]][b[i]]]

\* The word shifted left by one bit, the bit shifted out dropped.
Shl1(w) == [i \in 1..4 |->
    ((2 * w[i]) % 256) + (IF i < 4 /\ w[i + 1] >= 128 THEN 1 ELSE 0)]

\* One shift of the CRC register, most significant bit first.
CrcShift(r) == IF r[1] >= 128 THEN Xor32(Shl1(r), CrcPoly) ELSE Shl1(r)

CrcTable == [i \in Byte |->
    CrcShift(CrcShift(CrcShift(CrcShift(CrcShift(CrcShift(CrcShift(CrcShift(
        << i, 0, 0, 0 >>))))))))]

\* Digest::update for one byte: (r << 8) ^ table[(r >> 24) ^ b].
CrcByte(r, b) ==
    LET t == CrcTable[Xor8[r[1]][b]]
    IN  << Xor8[r[2]][t[1]], Xor8[r[3]][t[2]], Xor8[r[4]][t[3]], t[4] >>

\* Digest::update(bytes[lo..hi]), folded in order. The fold is split in halves
\* to keep the evaluation shallow; the test on `left` makes TLC evaluate the
\* first half before it starts on the second.
RECURSIVE CrcRange(_, _, _, _)
CrcRange(r, s, lo, hi) ==
    IF lo > hi THEN r
    ELSE IF lo = hi THEN CrcByte(r, s[lo])
    ELSE LET mid == (lo + hi) \div 2
             left == CrcRange(r, s, lo, mid)
         IN  IF Len(left) = 4 THEN CrcRange(left, s, mid + 1, hi) ELSE left

DigestNew == CrcInit
DigestUpdate(r, s) == CrcRange(r, s, 1, Len(s))
DigestFinalize(r) == Xor32(r, CrcXorOut)

\* u32::to_le_bytes / u32::from_le_bytes: least significant byte first.
ToLeBytes(w) == << w[4], w[3], w[2], w[1] >>
FromLeBytes(s) == << s[4], s[3], s[2], s[1] >>

\* ------------------------------------------------------------ generations
\* enum Generation { Valid(u8), None } (lib.rs:17-22).
Valid(v) == [valid |-> TRUE, val |-> v]
None == [valid |-> FALSE, val |-> 0]

\* Generation::is_valid (lib.rs:26-28).
is_valid(gen) == gen.valid

\* A comparator that counts a distance of half the range as newer.
wrapping_cmp_le(a, b) ==
    LET x == (a - b + U8) % U8
    IN  IF x = 0 THEN "Equal"
        ELSE IF x <= HalfRange THEN "Greater"
        ELSE "Less"

\* wrapping_cmp (lib.rs:230-236): a.wrapping_sub(b) decides.
wrapping_cmp(a, b) ==
    LET x == (a - b + U8) % U8
    IN  IF x = 0 THEN "Equal"
        ELSE IF x < HalfRange THEN "Greater"
        ELSE "Less"

\* u8::wrapping_add(1) (lib.rs:200).
wrapping_add1(g) == (g + 1) % U8

\* --------------------------------------------------------------- the probe
\* A slot file on disk: absent, or its bytes.
NoFile == [exists |-> FALSE, bytes |-> <<>>]
File(b) == [exists |-> TRUE, bytes |-> b]

\* FileCheckResult, with the two ways check_file ends without one: the
\* NotFound error of File::open, and the abort of todo!() (lib.rs:96).
Good(g) == [kind |-> "Good", generation |-> Valid(g)]
ChecksumFailure == [kind |-> "ChecksumFailure", generation |-> None]
NotFound == [kind |-> "NotFound", generation |-> None]
Aborted == [kind |-> "Aborted", generation |-> None]

\* Err(err) of check_file with err.kind() other than NotFound (lib.rs:136),
\* such as PermissionDenied from File::open (lib.rs:67).
IoFailure == [kind |-> "IoError", generation |-> None]

\* The loop of check_file (lib.rs:82-110), from file offset `off`, with the
\* digest and the candidate trailer so far. A read of a regular file returns
\* min(buffer length, bytes left).
RECURSIVE check_loop(_, _, _, _, _)
check_loop(bytes, off, digest, potential, generation) ==
    LET valid == Min(ProbeBufLen, Len(bytes) - off)
    IN  IF valid = 0
        THEN IF DigestFinalize(digest) = potential
             THEN Good(generation)
             ELSE ChecksumFailure
        ELSE IF valid < 4
        THEN Aborted
        ELSE LET data == Slice(bytes, off + 1, off + valid - 4)
                 pot_checksum == Slice(bytes, off + valid - 3, off + valid)
                 next == FromLeBytes(pot_checksum)
                 d1 == DigestUpdate(digest, ToLeBytes(next))
                 d2 == DigestUpdate(d1, data)
             IN  IF Len(d2) = 4
                 THEN check_loop(bytes, off + valid, d2, next, generation)
                 ELSE Aborted

\* A probe that asks for the four trailer bytes only, not for the generation
\* byte before them.
check_file_short(file) ==
    IF ~file.exists THEN NotFound
    ELSE LET bytes == file.bytes
             valid == Min(ProbeBufLen, Len(bytes))
         IN  IF valid < 4 THEN ChecksumFailure
             ELSE LET generation == bytes[1]
                      digest == DigestUpdate(DigestNew, Slice(bytes, 2, valid - 4))
                      potential == FromLeBytes(Slice(bytes, valid - 3, valid))
                  IN  check_loop(bytes, valid, digest, potential, generation)

\* check_file (lib.rs:66-111).
check_file(file) ==
    IF ~file.exists THEN NotFound
    ELSE LET bytes == file.bytes
             valid == Min(ProbeBufLen, Len(bytes))
         IN  IF valid < 5 THEN ChecksumFailure
             ELSE LET generation == bytes[1]
                      digest == DigestUpdate(DigestNew, Slice(bytes, 2, valid - 4))
                      potential == FromLeBytes(Slice(bytes, valid - 3, valid))
                  IN  check_loop(bytes, valid, digest, potential, generation)

\* BufferedFile::find_files (lib.rs:205-225): `.1` then `.2`.
find_files == [i \in 1..BUFFER_COUNT |-> i]

\* The closure of BufferedFile::new (lib.rs:132-137): what one probe result
\* contributes to the snapshot.
\* The closure returns Err(err) for any other error, and flat_map, iterating
\* over the Result, drops it: the slot gets no entry.
probe_entry(f, res) ==
    IF res.kind = "Good" THEN << [slot |-> f, gen |-> res.generation] >>
    ELSE IF res.kind = "IoError" THEN << >>
    ELSE << [slot |-> f, gen |-> None] >>

\* check_file on slot f of disk d, for a caller that is refused the files of
\* the slots in `denied` (File::open fails before anything is read).
probe(d, denied, f) ==
    IF d[f].exists /\ f \in denied THEN IoFailure ELSE check_file(d[f])

RECURSIVE scan_files(_, _, _)
scan_files(d, denied, i) ==
    IF i > Len(find_files) THEN <<>>
    ELSE probe_entry(find_files[i], probe(d, denied, find_files[i]))
             \o scan_files(d, denied, i + 1)

\* ------------------------------------------------------ selection queries
\* select_newest_valid (lib.rs:144-158): filter the Valid entries, then
\* max_by_key on the raw u8; Iterator::max_by_key keeps the last maximum.
\* 0 stands for Err(AllFilesInvalidError).
RECURSIVE newest_fold(_, _, _)
newest_fold(fs, i, acc) ==
    IF i > Len(fs) THEN acc
    ELSE IF ~is_valid(fs[i].gen) THEN newest_fold(fs, i + 1, acc)
    ELSE IF acc = 0 THEN newest_fold(fs, i + 1, i)
    ELSE IF fs[acc].gen.val > fs[i].gen.val THEN newest_fold(fs, i + 1, acc)
    ELSE newest_fold(fs, i + 1, i)

select_newest_valid(fs) ==
    LET k == newest_fold(fs, 1, 0) IN IF k = 0 THEN 0 ELSE fs[k].slot

\* The comparator closure of BufferedFile::write (lib.rs:177-182).
target_cmp(a, b) ==
    IF a.valid /\ b.valid THEN wrapping_cmp(a.val, b.val)
    ELSE IF ~a.valid /\ ~b.valid THEN "Equal"
    ELSE IF ~a.valid THEN "Less"
    ELSE "Greater"

\* Iterator::min_by (lib.rs:177): the first minimum is kept.
RECURSIVE target_fold(_, _, _)
target_fold(fs, i, acc) ==
    IF i > Len(fs) THEN acc
    ELSE IF target_cmp(fs[acc].gen, fs[i].gen) = "Greater" THEN target_fold(fs, i + 1, i)
    ELSE target_fold(fs, i + 1, acc)

\* A target search that keeps the last minimum instead of the first.
RECURSIVE target_fold_last(_, _, _)
target_fold_last(fs, i, acc) ==
    IF i > Len(fs) THEN acc
    ELSE IF target_cmp(fs[acc].gen, fs[i].gen) = "Less" THEN target_fold_last(fs, i + 1, acc)
    ELSE target_fold_last(fs, i + 1, i)

write_target_last(fs) == fs[target_fold_last(fs, 2, 1)].slot

\* The slot BufferedFile::write overwrites (lib.rs:174-183).
write_target(fs) == fs[target_fold(fs, 2, 1)].slot

\* The map closure of BufferedFile::write (lib.rs:188-191).
observed(gen) == IF gen.valid THEN gen.val ELSE 0

\* Iterator::max_by (lib.rs:192): the last maximum is kept.
RECURSIVE current_fold(_, _, _)
current_fold(fs, i, acc) ==
    IF i > Len(fs) THEN acc
    ELSE IF wrapping_cmp(acc, observed(fs[i].gen)) = "Greater"
         THEN current_fold(fs, i + 1, acc)
         ELSE current_fold(fs, i + 1, observed(fs[i].gen))

\* current_generation of BufferedFile::write (lib.rs:185-193).
current_generation(fs) == current_fold(fs, 2, observed(fs[1].gen))

\* The generation byte BufferedFile::write stamps (lib.rs:200).
next_generation(fs) == wrapping_add1(current_generation(fs))

\* ------------------------------------------------------------------ state
VARIABLES
    disk,     \* the two slot files: disk[1] is `<path>.1`, disk[2] is `<path>.2`
    pc,       \* where the one caller is: idle, opened, writing, reading, done
    files,    \* BufferedFile.files: the snapshot of the handle in use
    writer,   \* the BufferedFileWriter in use
    reader,   \* the BufferedFileReader in use
    got,      \* the bytes the Reader has returned so far, or since it last sought
    outcome,  \* how the last call ended
    cycle,    \* completed write cycles so far, mod 256, while every write completed
    clean,    \* no write was interrupted so far
    last,     \* the most recently completed write: slot, payload, the snapshot
              \* it was made on and the slot files that existed then
    prior,    \* the newest valid slot, and its file, when write() was last called,
              \* and the slot whose Writer was open when the process died
    hit,      \* the slot and offset of the byte that was corrupted, if any
    env,      \* what the caller does: payloads written, buffer sizes used
    budget,   \* calls of write() still to come (-1: unlimited)
    peer,     \* a second process that writes while the caller holds a Reader
    ffi,      \* the last call through the C interface, and LAST_ERROR
    cmp       \* two generation bytes and what wrapping_cmp makes of them

vars == << disk, pc, files, writer, reader, got, outcome, cycle, clean, last,
           prior, hit, env, budget, peer, ffi, cmp >>

NoWriter == [slot |-> 0, gen |-> 0, digest |-> DigestNew, rest |-> <<>>, sent |-> <<>>,
             had |-> {}]
NoSeek == [whence |-> "none", n |-> 0, ok |-> TRUE, ret |-> 0]
NoReader == [slot |-> 0, useful_file_size |-> 0, pos |-> 0, offset |-> 0, eof |-> FALSE,
             asked |-> 0, from |-> 0, at |-> 0, count |-> 0, sought |-> NoSeek,
             early |-> FALSE]
NoWrite == [slot |-> 0, payload |-> <<>>, on |-> <<>>, had |-> {}]
NoPrior == [slot |-> 0, bytes |-> <<>>, torn |-> 0]
NoHit == [slot |-> 0, at |-> 0]
NoPeer == [pc |-> "off", files |-> <<>>, slot |-> 0, gen |-> 0, digest |-> DigestNew,
           rest |-> <<>>]
NoFfi == [call |-> "none", hnull |-> FALSE, bnull |-> FALSE, len |-> << 0, 0, 0, 0 >>,
          ret |-> 0, last_error |-> "None", kept |-> TRUE, text |-> "None",
          reported |-> 0]
NoCmp == [a |-> 0, b |-> 0, ab |-> "none", ba |-> "none"]

\* The payload region of a slot file: all but the generation byte and the
\* four trailer bytes.
PayloadOf(bytes) == Slice(bytes, 2, Len(bytes) - 4)

\* The Valid entry of a snapshot that the wraparound order puts after every
\* other Valid entry (0 when there is none, or the order does not decide).
WrapNewest(fs) ==
    LET newest == { i \in 1..Len(fs) :
                      /\ fs[i].gen.valid
                      /\ \A j \in 1..Len(fs) :
                            (j # i /\ fs[j].gen.valid)
                                => wrapping_cmp(fs[i].gen.val, fs[j].gen.val) = "Greater" }
    IN  IF Cardinality(newest) = 1 THEN fs[CHOOSE i \in newest : TRUE].slot ELSE 0

\* What a call of write() on snapshot fs finds as the newest valid slot.
PriorOf(fs, d) ==
    IF WrapNewest(fs) = 0 THEN NoPrior
    ELSE [slot |-> WrapNewest(fs), bytes |-> d[WrapNewest(fs)].bytes, torn |-> 0]

\* The payloads written in the generation model: empty, one byte, and the
\* longest one.
SmallPayloads == { <<>>, << 7 >>, Fill(7, MaxPayloadLen) }

\* A payload that starts with the trailer of the empty payload, CRC32("") = 0
\* (the bytes tests::can_write_empty_file expects, lib.rs:374), and a plain one.
TornPayloads == { << 7 >>, Fill(0, TrailerLen) }

\* A payload of n bytes that do not repeat with the chunk size.
Pattern(n) == [i \in 1..n |-> (i * 7) % 251]

\* The payloads around the probe's chunk size: empty, one byte, the payload
\* whose slot file ends exactly at the chunk boundary, one byte more, a
\* payload of one chunk, and a long one.
ChunkPayloads ==
    { <<>>, << 7 >>,
      Pattern(ProbeBufLen - 1 - TrailerLen),
      Pattern(ProbeBufLen - TrailerLen),
      Pattern(ProbeBufLen),
      Pattern(LongChunks * ProbeBufLen + 3) }

\* A fresh logical path: neither slot file exists.
FreshDisk == [s \in Slots |-> NoFile]

InitWith(e, b) ==
    /\ disk = FreshDisk
    /\ pc = "idle"
    /\ files = <<>>
    /\ writer = NoWriter
    /\ reader = NoReader
    /\ got = <<>>
    /\ outcome = "none"
    /\ cycle = 0
    /\ clean = TRUE
    /\ last = NoWrite
    /\ prior = NoPrior
    /\ hit = NoHit
    /\ env = e
    /\ budget = b
    /\ peer = NoPeer
    /\ ffi = NoFfi
    /\ cmp = NoCmp

Init == InitWith([pool |-> SmallPayloads, counts |-> {1}, bufs |-> {TransferBufLen},
                  corrupt |-> FALSE, denied |-> {}, seeks |-> {}, build |-> "checked", faults |-> {}], -1)

\* --------------------------------------------------------------- actions
\* BufferedFile::new (lib.rs:128-141): probe both slots; todo!() in a probe
\* aborts the call.
New ==
    /\ pc = "idle"
    /\ IF \E s \in Slots : probe(disk, env.denied, s).kind = "Aborted"
       THEN /\ pc' = "done"
            /\ outcome' = "aborted"
            /\ files' = <<>>
       ELSE /\ pc' = "opened"
            /\ outcome' = "none"
            /\ files' = scan_files(disk, env.denied, 1)
    /\ UNCHANGED << peer, ffi, cmp, disk, writer, reader, got, cycle, clean, last, prior, hit, env, budget >>

\* BufferedFileReader::new (reader.rs:18-24) on slot `file` of disk d.
reader_new(d, file) ==
    [slot |-> file,
     useful_file_size |-> IF Len(d[file].bytes) > 5 THEN Len(d[file].bytes) - 5 ELSE 0,
     pos |-> 0,
     offset |-> 1,
     eof |-> FALSE,
     asked |-> 0, from |-> 0, at |-> 0, count |-> 0,
     sought |-> NoSeek,
     early |-> (peer.pc = "idle")]

\* BufferedFile::read (lib.rs:162-168).
Read ==
    /\ pc = "opened"
    /\ LET file == select_newest_valid(files)
       IN  IF file = 0
           THEN /\ pc' = "done"
                /\ outcome' = "AllFilesInvalidError"
                /\ reader' = NoReader
           ELSE /\ pc' = "reading"
                /\ outcome' = "none"
                /\ reader' = reader_new(disk, file)
    /\ got' = <<>>
    /\ UNCHANGED << peer, ffi, cmp, disk, files, writer, cycle, clean, last, prior, hit, env, budget >>

\* BufferedFile::write (lib.rs:173-203) followed by BufferedFileWriter::new
\* (writer.rs:23-29): truncate the target, write the generation byte, start
\* a fresh digest. `payload` is what the caller goes on to write.
\* On a snapshot without entries min_by finds nothing and expect() (lib.rs:183)
\* aborts the call before any file is touched.
Write(payload) ==
    /\ pc = "opened"
    /\ budget # 0
    /\ IF Len(files) = 0
       THEN /\ pc' = "done"
            /\ outcome' = "aborted"
            /\ UNCHANGED << disk, writer >>
       ELSE /\ LET target == write_target(files)
                   gen == next_generation(files)
               IN  /\ disk' = [disk EXCEPT ![target] = File(<< gen >>)]
                   /\ writer' = [slot |-> target, gen |-> gen, digest |-> DigestNew,
                                 rest |-> payload, sent |-> <<>>,
                                 had |-> { s \in Slots : disk[s].exists }]
            /\ pc' = "writing"
            /\ outcome' = "none"
    /\ budget' = IF budget > 0 THEN budget - 1 ELSE budget
    /\ prior' = PriorOf(files, disk)
    /\ hit' = NoHit
    /\ UNCHANGED << peer, ffi, cmp, files, reader, got, cycle, clean, last, env >>

\* The process dies inside BufferedFile::write, after OpenOptions::open has
\* truncated the target (lib.rs:195-199) and before the generation byte is
\* written (lib.rs:200).
CrashInWrite ==
    /\ pc = "opened"
    /\ budget # 0
    /\ Len(files) > 0
    /\ disk' = [disk EXCEPT ![write_target(files)] = File(<<>>)]
    /\ pc' = "done"
    /\ outcome' = "crashed"
    /\ clean' = FALSE
    /\ cycle' = 0
    /\ budget' = IF budget > 0 THEN budget - 1 ELSE budget
    /\ prior' = PriorOf(files, disk)
    /\ hit' = NoHit
    /\ UNCHANGED << peer, ffi, cmp, files, writer, reader, got, last, env >>

\* A write that folds the whole buffer, whatever the file accepted.
writer_write_all(w, buf, count) ==
    [w EXCEPT !.digest = DigestUpdate(w.digest, buf),
              !.rest = Slice(buf, count + 1, Len(buf)),
              !.sent = w.sent \o Slice(buf, 1, count)]

\* What one call of BufferedFileWriter::write (writer.rs:11-15) does to the
\* writer when the file accepts `count` bytes of `buf`.
writer_write(w, buf, count) ==
    [w EXCEPT !.digest = DigestUpdate(w.digest, Slice(buf, 1, count)),
              !.rest = Slice(buf, count + 1, Len(buf)),
              !.sent = w.sent \o Slice(buf, 1, count)]

\* A write whose bytes reach every slot file there is.
write_rest_both(count) ==
    /\ pc = "writing"
    /\ count >= 1
    /\ count <= Len(writer.rest)
    /\ disk' = [s \in Slots |->
                   IF disk[s].exists
                   THEN File(disk[s].bytes \o Slice(writer.rest, 1, count))
                   ELSE disk[s]]
    /\ writer' = writer_write(writer, writer.rest, count)
    /\ UNCHANGED << peer, cmp, pc, files, reader, got, outcome, cycle, clean, last, prior,
                    hit, env, budget >>

\* BufferedFileWriter::write (writer.rs:11-15) on the rest of the payload.
write_rest(count) ==
    /\ pc = "writing"
    /\ count >= 1
    /\ count <= Len(writer.rest)
    /\ disk' = [disk EXCEPT ![writer.slot] =
                   File(disk[writer.slot].bytes \o Slice(writer.rest, 1, count))]
    /\ writer' = writer_write(writer, writer.rest, count)
    /\ UNCHANGED << peer, cmp, pc, files, reader, got, outcome, cycle, clean, last, prior,
                    hit, env, budget >>

\* The same call made from Rust.
WriterWrite(count) ==
    /\ write_rest(count)
    /\ UNCHANGED ffi

\* The trailer Drop::drop appends (writer.rs:36-38).
trailer(w) == ToLeBytes(DigestFinalize(w.digest))

\* Drop for BufferedFileWriter (writer.rs:32-40), once the caller has written
\* the whole payload.
WriterDrop ==
    /\ pc = "writing"
    /\ writer.rest = <<>>
    /\ disk' = [disk EXCEPT ![writer.slot] =
                   File(disk[writer.slot].bytes \o trailer(writer))]
    /\ pc' = "done"
    /\ outcome' = "released"
    /\ cycle' = IF clean THEN (cycle + 1) % U8 ELSE 0
    /\ last' = [slot |-> writer.slot, payload |-> writer.sent, on |-> files,
                had |-> writer.had]
    /\ prior' = NoPrior
    /\ UNCHANGED << peer, ffi, cmp, files, writer, reader, got, clean, hit, env, budget >>

\* Power loss or process death while the Writer is open: drop never runs.
Crash ==
    /\ pc = "writing"
    /\ pc' = "done"
    /\ outcome' = "crashed"
    /\ clean' = FALSE
    /\ cycle' = 0
    /\ prior' = [prior EXCEPT !.torn = writer.slot]
    /\ UNCHANGED << peer, ffi, cmp, disk, files, writer, reader, got, last, hit, env, budget >>

\* The number of bytes BufferedFileReader::read hands to the inner read
\* (reader.rs:29-32).
read_limit(r, n) ==
    LET limit == r.useful_file_size - r.pos
    IN  IF n > limit THEN limit ELSE n

\* How `useful_file_size - pos` (reader.rs:29) comes out when pos is the
\* larger: a build with overflow checks aborts, one without wraps around, and
\* usize::try_from of the wrapped value succeeds where usize has 64 bits and
\* fails (limit 0) where it has 32.
Builds == { "checked", "wrapping64", "wrapping32" }

\* BufferedFileReader::read (reader.rs:28-39) with a buffer of n bytes. The
\* reader remembers the call: the buffer length asked, the position and the
\* file offset it started at, and the number of bytes returned.
reader_read(n) ==
    /\ pc = "reading"
    /\ ~reader.eof
    /\ IF reader.pos > reader.useful_file_size /\ env.build = "checked"
       THEN /\ pc' = "done"
            /\ outcome' = "aborted"
            /\ reader' = [reader EXCEPT !.asked = n, !.from = reader.offset,
                                        !.at = reader.pos, !.count = 0,
                                        !.sought = NoSeek]
            /\ UNCHANGED got
       ELSE /\ LET bytes == disk[reader.slot].bytes
                   want == IF reader.pos <= reader.useful_file_size
                           THEN read_limit(reader, n)
                           ELSE IF env.build = "wrapping64" THEN n ELSE 0
                   left == IF Len(bytes) > reader.offset
                           THEN Len(bytes) - reader.offset ELSE 0
                   read == Min(want, left)
               IN  /\ got' = got \o Slice(bytes, reader.offset + 1, reader.offset + read)
                   /\ reader' = [reader EXCEPT !.pos = reader.pos + read,
                                               !.offset = reader.offset + read,
                                               !.eof = (read = 0),
                                               !.asked = n,
                                               !.from = reader.offset,
                                               !.at = reader.pos,
                                               !.count = read,
                                               !.sought = NoSeek]
            /\ UNCHANGED << pc, outcome >>
    /\ UNCHANGED << peer, cmp, disk, files, writer, cycle, clean, last, prior, hit, env,
                    budget >>

\* The same call made from Rust.
ReaderRead(n) ==
    /\ reader_read(n)
    /\ UNCHANGED ffi

\* The SeekFrom that BufferedFileReader::seek hands to the file
\* (reader.rs:44-48), as the offset it asks for.
inner_seek(r, size, whence, n) ==
    IF whence = "Start" THEN n + 1
    ELSE IF whence = "Current" THEN r.offset + n
    ELSE size + (n + 4)

\* BufferedFileReader::seek (reader.rs:43-53). File::seek refuses an offset
\* before the start of the file and accepts any offset after its end; the
\* caller stays within the reach of one seek from the end.
ReaderSeek(whence, n) ==
    /\ pc = "reading"
    /\ whence = "Start" => n >= 0
    /\ inner_seek(reader, Len(disk[reader.slot].bytes), whence, n)
          <= Len(disk[reader.slot].bytes) + TrailerLen + MaxSeek
    /\ LET to == inner_seek(reader, Len(disk[reader.slot].bytes), whence, n)
           new_start == IF to >= 1 THEN to - 1 ELSE 0
       IN  IF to < 0
           THEN reader' = [reader EXCEPT !.eof = FALSE, !.count = 0, !.asked = 0,
                               !.sought = [whence |-> whence, n |-> n, ok |-> FALSE, ret |-> 0]]
           ELSE reader' = [reader EXCEPT !.offset = to, !.pos = new_start,
                               !.eof = FALSE, !.count = 0, !.asked = 0,
                               !.sought = [whence |-> whence, n |-> n, ok |-> TRUE,
                                           ret |-> new_start]]
    /\ got' = <<>>
    /\ UNCHANGED << peer, ffi, cmp, disk, pc, files, writer, outcome, cycle, clean, last,
                    prior, hit, env, budget >>

\* The caller lets go of whatever the last call left (a finished Reader, an
\* error, a released Writer) or the process restarts after a crash.
Finish ==
    /\ \/ pc = "done"
       \/ pc = "reading" /\ reader.eof
    /\ pc' = "idle"
    /\ files' = <<>>
    /\ writer' = NoWriter
    /\ reader' = NoReader
    /\ got' = <<>>
    /\ outcome' = "none"
    /\ UNCHANGED << peer, ffi, cmp, disk, cycle, clean, last, prior, hit, env, budget >>

\* The steps of a caller whose writes all complete.
NextClean ==
    \/ New
    \/ Read
    \/ \E payload \in env.pool : Write(payload)
    \/ \E count \in env.counts \cup {Len(writer.rest)} : WriterWrite(count)
    \/ WriterDrop
    \/ \E n \in env.bufs : ReaderRead(n)
    \/ Finish

\* The same steps, and the process dying while it writes.
Next ==
    \/ NextClean
    \/ CrashInWrite
    \/ Crash

Spec == Init /\ [][Next]_vars

\* Runs in which no write is interrupted.
SpecClean == Init /\ [][NextClean]_vars

\* The same caller, writing payloads whose prefix can pass for a whole slot.
InitTorn == InitWith([pool |-> TornPayloads, counts |-> {1}, bufs |-> {TransferBufLen},
                      corrupt |-> FALSE, denied |-> {}, seeks |-> {}, build |-> "checked", faults |-> {}], MaxTornWrites)

SpecTorn == InitTorn /\ [][Next]_vars

\* The same caller, writing payloads around the probe's chunk size, a chunk
\* or the whole rest per call.
InitChunk == InitWith([pool |-> ChunkPayloads, counts |-> {ProbeBufLen},
                       bufs |-> {TransferBufLen}, corrupt |-> FALSE, denied |-> {}, seeks |-> {}, build |-> "checked", faults |-> {}], MaxChunkWrites)

SpecChunk == InitChunk /\ [][Next]_vars

\* One byte of the Valid slot file s changes while no handle is open (bit rot,
\* a stray write of another program); this happens once in a run.
Corrupt(s) ==
    /\ env.corrupt
    /\ pc = "idle"
    /\ disk[s].exists
    /\ check_file(disk[s]).kind = "Good"
    /\ \E i \in 1..Len(disk[s].bytes) : \E v \in Byte \ {disk[s].bytes[i]} :
          /\ disk' = [disk EXCEPT ![s] = File([disk[s].bytes EXCEPT ![i] = v])]
          /\ hit' = [slot |-> s, at |-> i]
    /\ env' = [env EXCEPT !.corrupt = FALSE]
    /\ UNCHANGED << peer, ffi, cmp, pc, files, writer, reader, got, outcome, cycle, clean, last, prior,
                    budget >>

NextCorrupt ==
    \/ Next
    \/ \E s \in Slots : Corrupt(s)

InitCorrupt == InitWith([pool |-> SmallPayloads, counts |-> {1}, bufs |-> {TransferBufLen},
                         corrupt |-> TRUE, denied |-> {}, seeks |-> {}, build |-> "checked", faults |-> {}], MaxCorruptWrites)

SpecCorrupt == InitCorrupt /\ [][NextCorrupt]_vars

\* A second process opens the path while the caller holds a Reader:
\* BufferedFile::new (lib.rs:128-141) on the disk as it is then.
PeerNew ==
    /\ peer.pc = "idle"
    /\ pc = "reading"
    /\ IF \E s \in Slots : probe(disk, env.denied, s).kind = "Aborted"
       THEN peer' = [peer EXCEPT !.pc = "done"]
       ELSE peer' = [peer EXCEPT !.pc = "opened",
                                 !.files = scan_files(disk, env.denied, 1)]
    /\ UNCHANGED << disk, pc, files, writer, reader, got, outcome, cycle, clean, last, prior,
                    hit, env, budget, ffi, cmp >>

\* BufferedFile::write (lib.rs:173-203) of the second process, which goes on
\* to write the one-byte payload. The caller's count of its own write cycles
\* no longer tells the generations on disk.
PeerWrite ==
    /\ peer.pc = "opened"
    /\ IF Len(peer.files) = 0
       THEN /\ peer' = [peer EXCEPT !.pc = "done"]
            /\ UNCHANGED disk
       ELSE LET target == write_target(peer.files)
                gen == next_generation(peer.files)
            IN  /\ disk' = [disk EXCEPT ![target] = File(<< gen >>)]
                /\ peer' = [peer EXCEPT !.pc = "writing", !.slot = target, !.gen = gen,
                                        !.digest = DigestNew, !.rest = << 7 >>]
    /\ clean' = FALSE
    /\ cycle' = 0
    /\ UNCHANGED << pc, files, writer, reader, got, outcome, last, prior, hit, env, budget,
                    ffi, cmp >>

\* BufferedFileWriter::write (writer.rs:11-15) of the second process: the
\* file takes the whole payload.
PeerWriterWrite ==
    /\ peer.pc = "writing"
    /\ peer.rest # <<>>
    /\ disk' = [disk EXCEPT ![peer.slot] = File(disk[peer.slot].bytes \o peer.rest)]
    /\ peer' = [peer EXCEPT !.digest = DigestUpdate(peer.digest, peer.rest),
                            !.rest = <<>>]
    /\ UNCHANGED << pc, files, writer, reader, got, outcome, cycle, clean, last, prior, hit,
                    env, budget, ffi, cmp >>

\* Drop for BufferedFileWriter (writer.rs:32-40) of the second process.
PeerDrop ==
    /\ peer.pc = "writing"
    /\ peer.rest = <<>>
    /\ disk' = [disk EXCEPT ![peer.slot] =
                   File(disk[peer.slot].bytes \o ToLeBytes(DigestFinalize(peer.digest)))]
    /\ peer' = [peer EXCEPT !.pc = "done"]
    /\ UNCHANGED << pc, files, writer, reader, got, outcome, cycle, clean, last, prior, hit,
                    env, budget, ffi, cmp >>

\* The caller's steps, none interrupted, and the one write of the second
\* process.
NextPeer ==
    \/ NextClean
    \/ PeerNew
    \/ PeerWrite
    \/ PeerWriterWrite
    \/ PeerDrop

\* The slot file a completed write cycle with generation g leaves.
WrittenSlot(g, payload) ==
    File(<< g >> \o payload \o ToLeBytes(DigestFinalize(DigestUpdate(DigestNew, payload))))

\* The path after i >= 2 completed write cycles of the empty payload, for
\* every generation g = i mod 256 of the last one: cycle i writes `.1` when i
\* is odd and `.2` when it is even, and the other slot holds the cycle before.
WrittenDisks ==
    { [s \in Slots |-> IF s = (IF g % 2 = 1 THEN 1 ELSE 2)
                       THEN WrittenSlot(g, << >>)
                       ELSE WrittenSlot((g + U8 - 1) % U8, << >>)] : g \in Byte }

\* The second process meets the caller on a fresh path, after its first
\* write cycle, or after any number of them.
InitPeer ==
    /\ disk \in { FreshDisk, [FreshDisk EXCEPT ![1] = WrittenSlot(1, << >>)] }
                    \cup WrittenDisks
    /\ pc = "idle"
    /\ files = <<>>
    /\ writer = NoWriter
    /\ reader = NoReader
    /\ got = <<>>
    /\ outcome = "none"
    /\ cycle = 0
    /\ clean = TRUE
    /\ last = NoWrite
    /\ prior = NoPrior
    /\ hit = NoHit
    /\ env = [pool |-> { << 7 >> }, counts |-> {1}, bufs |-> {TransferBufLen},
              corrupt |-> FALSE, denied |-> {}, seeks |-> {}, build |-> "checked", faults |-> {}]
    /\ budget = MaxPeerWrites
    /\ peer = [NoPeer EXCEPT !.pc = "idle"]
    /\ ffi = NoFfi
    /\ cmp = NoCmp

SpecPeer == InitPeer /\ [][NextPeer]_vars

\* ------------------------------------------------------- the C interface
\* enum ErrorCode (ffi.rs:19-27).
ErrBufferTooLong == -201
ErrInvalidPointer == -202
ErrFileNotFound == -1
ErrUnknownIoError == -3

\* A usize or u64 as four 16-bit limbs, the most significant first.
U64(n) == << 0, 0, 0, n >>
I64_MAX == << 32767, 65535, 65535, 65535 >>
USIZE_MAX == << 65535, 65535, 65535, 65535 >>

U64Greater(x, y) ==
    \E i \in 1..4 : x[i] > y[i] /\ \A j \in 1..(i - 1) : x[j] = y[j]

\* A test that also refuses a length of exactly i64::MAX.
buffer_too_long_ge(len) == U64Greater(len, I64_MAX) \/ len = I64_MAX

\* buffer_len > usize::try_from(i64::MAX).unwrap_or(buffer_len)
\* (ffi.rs:170, ffi.rs:218).
buffer_too_long(len) == U64Greater(len, I64_MAX)

\* The length of the slice made of the caller's buffer (ffi.rs:186), as a
\* number: lengths beyond the last limb count as the largest number there is.
SliceLen(len) ==
    IF len[1] = 0 /\ len[2] = 0 /\ len[3] = 0 THEN len[4] ELSE 32767 * 65536 + 65535

\* From<&std::io::Error> for ErrorCode (ffi.rs:43-50).
error_code(kind) == IF kind = "NotFound" THEN ErrFileNotFound ELSE ErrUnknownIoError

\* What a foreign call records: its arguments, its return value, LAST_ERROR,
\* and whether it left the handle, the caller's bytes and the files alone.
ffi_result(call, hnull, bnull, len, ret, err, kept) ==
    [call |-> call, hnull |-> hnull, bnull |-> bnull, len |-> len, ret |-> ret,
     last_error |-> err, kept |-> kept, text |-> "None",
     reported |-> IF ret < 0 THEN 0 ELSE ffi.reported]

\* bufferedfile_read (ffi.rs:168-197). A handle that is not null is the
\* caller's Reader; inner.read may fail with one of env.faults.
FfiRead(hnull, bnull, len) ==
    /\ ~hnull => (pc = "reading" /\ ~reader.eof)
    /\ IF buffer_too_long(len)
       THEN /\ UNCHANGED << disk, pc, files, writer, reader, got, outcome, cycle, clean,
                            last, prior, hit, env, budget, peer, cmp >>
            /\ ffi' = ffi_result("read", hnull, bnull, len, ErrBufferTooLong,
                                 "BufferTooLong",
                                 reader' = reader /\ got' = got /\ disk' = disk)
       ELSE IF hnull \/ bnull
       THEN /\ UNCHANGED << disk, pc, files, writer, reader, got, outcome, cycle, clean,
                            last, prior, hit, env, budget, peer, cmp >>
            /\ ffi' = ffi_result("read", hnull, bnull, len, ErrInvalidPointer,
                                 "InvalidPointer",
                                 reader' = reader /\ got' = got /\ disk' = disk)
       ELSE \/ /\ reader_read(SliceLen(len))
               /\ ffi' = ffi_result("read", hnull, bnull, len, reader'.count,
                                    ffi.last_error,
                                    reader' = reader /\ got' = got /\ disk' = disk)
            \/ \E kind \in env.faults :
                  /\ UNCHANGED << disk, pc, files, writer, reader, got, outcome, cycle,
                                  clean, last, prior, hit, env, budget, peer, cmp >>
                  /\ ffi' = ffi_result("read", hnull, bnull, len, error_code(kind),
                                       "IoError", FALSE)

\* bufferedfile_write (ffi.rs:212-245). A handle that is not null is the
\* caller's Writer, and a buffer that is not null holds the next bytes of the
\* payload; the file takes one byte of it or all.
FfiWrite(hnull, bnull, len) ==
    /\ ~hnull => pc = "writing"
    /\ IF buffer_too_long(len)
       THEN /\ UNCHANGED << disk, pc, files, writer, reader, got, outcome, cycle, clean,
                            last, prior, hit, env, budget, peer, cmp >>
            /\ ffi' = ffi_result("write", hnull, bnull, len, ErrBufferTooLong,
                                 "BufferTooLong",
                                 writer' = writer /\ disk' = disk)
       ELSE IF hnull \/ bnull
       THEN /\ UNCHANGED << disk, pc, files, writer, reader, got, outcome, cycle, clean,
                            last, prior, hit, env, budget, peer, cmp >>
            /\ ffi' = ffi_result("write", hnull, bnull, len, ErrInvalidPointer,
                                 "InvalidPointer",
                                 writer' = writer /\ disk' = disk)
       ELSE /\ SliceLen(len) <= Len(writer.rest)
            /\ \/ /\ SliceLen(len) = 0
                  /\ UNCHANGED << disk, pc, files, writer, reader, got, outcome, cycle,
                                  clean, last, prior, hit, env, budget, peer, cmp >>
                  /\ ffi' = ffi_result("write", hnull, bnull, len, 0, ffi.last_error,
                                       FALSE)
               \/ \E count \in { 1, SliceLen(len) } :
                  /\ write_rest(count)
                  /\ ffi' = ffi_result("write", hnull, bnull, len, count,
                                       ffi.last_error, FALSE)
               \/ \E kind \in env.faults :
                  /\ UNCHANGED << disk, pc, files, writer, reader, got, outcome, cycle,
                                  clean, last, prior, hit, env, budget, peer, cmp >>
                  /\ ffi' = ffi_result("write", hnull, bnull, len, error_code(kind),
                                       "IoError", FALSE)

\* bufferedfile_open_read (ffi.rs:68-101): BufferedFile::new and then read()
\* on a path the caller passes; a failure leaves its error in LAST_ERROR and
\* returns a null handle.
FfiOpenRead(utf8) ==
    /\ pc = "idle"
    /\ IF ~utf8
       THEN /\ ffi' = [NoFfi EXCEPT !.call = "open_read", !.hnull = TRUE,
                                    !.last_error = "NonUtf8Path"]
            /\ UNCHANGED << pc, files, reader, got, outcome >>
       ELSE IF \E s \in Slots : probe(disk, env.denied, s).kind = "Aborted"
       THEN /\ pc' = "done"
            /\ outcome' = "aborted"
            /\ UNCHANGED << files, reader, got, ffi >>
       ELSE LET fs == scan_files(disk, env.denied, 1)
                file == select_newest_valid(fs)
            IN  IF file = 0
                THEN /\ ffi' = [NoFfi EXCEPT !.call = "open_read", !.hnull = TRUE,
                                             !.last_error = "AllFilesInvalidError"]
                     /\ UNCHANGED << pc, files, reader, got, outcome >>
                ELSE /\ ffi' = [NoFfi EXCEPT !.call = "open_read",
                                             !.last_error = ffi.last_error,
                                             !.reported = ffi.reported]
                     /\ pc' = "reading"
                     /\ files' = fs
                     /\ reader' = reader_new(disk, file)
                     /\ got' = <<>>
                     /\ outcome' = "none"
    /\ UNCHANGED << disk, writer, cycle, clean, last, prior, hit, env, budget, peer, cmp >>

\* The number of bytes of err.to_string() (ffi.rs:348-362). An I/O error
\* prints as "Underlying IO Error: " and the system's text, here that of a
\* missing file, "No such file or directory (os error 2)".
error_message_len(err) ==
    CASE err = "BufferTooLong" -> 27
      [] err = "InvalidPointer" -> 27
      [] err = "NonUtf8Path" -> 31
      [] err = "AllFilesInvalidError" -> 21
      [] err = "IoError" -> 21 + 38
      [] OTHER -> 0

\* last_error_length (ffi.rs:285-291): LAST_ERROR is looked at, not taken.
last_error_length(err) == IF err = "None" THEN 0 ELSE error_message_len(err) + 1

LastErrorLength ==
    /\ ffi' = [ffi EXCEPT !.call = "last_error_length",
                          !.hnull = FALSE, !.bnull = FALSE, !.len = U64(0),
                          !.ret = last_error_length(ffi.last_error),
                          !.reported = last_error_length(ffi.last_error),
                          !.text = "None", !.kept = TRUE]
    /\ UNCHANGED << disk, pc, files, writer, reader, got, outcome, cycle, clean, last,
                    prior, hit, env, budget, peer, cmp >>

\* last_error_message (ffi.rs:309-346) on a buffer of `length` bytes: what it
\* returns, the error whose text it copied, and what is left in LAST_ERROR.
last_error_message(err, bnull, length) ==
    IF bnull THEN [ret |-> -1, text |-> "None", last_error |-> err]
    ELSE IF err = "None" THEN [ret |-> 0, text |-> "None", last_error |-> "None"]
    ELSE IF error_message_len(err) >= length
    THEN [ret |-> -1, text |-> "None", last_error |-> "None"]
    ELSE [ret |-> error_message_len(err), text |-> err, last_error |-> "None"]

LastErrorMessage(bnull, length) ==
    /\ LET r == last_error_message(ffi.last_error, bnull, length)
       IN  ffi' = [ffi EXCEPT !.call = "last_error_message",
                              !.hnull = FALSE, !.bnull = bnull, !.len = U64(length),
                              !.ret = r.ret, !.text = r.text,
                              !.last_error = r.last_error, !.kept = TRUE]
    /\ UNCHANGED << disk, pc, files, writer, reader, got, outcome, cycle, clean, last,
                    prior, hit, env, budget, peer, cmp >>

\* The errors LAST_ERROR can hold (ffi.rs:12-17).
FfiErrors == { "BufferTooLong", "InvalidPointer", "NonUtf8Path", "AllFilesInvalidError",
              "IoError" }

\* The buffer lengths passed to last_error_message: none, the length of each
\* message, and MessageSlack bytes more.
MessageBufs ==
    { 0 } \cup { error_message_len(e) + d : e \in FfiErrors, d \in 0..MessageSlack }

\* The buffer lengths a foreign caller passes: honest small ones, the largest
\* length accepted, the smallest refused, and the largest there is.
FfiLens ==
    { U64(n) : n \in 0..MaxFfiBuf } \cup { I64_MAX, << 32768, 0, 0, 0 >>, USIZE_MAX }

\* The steps of a caller that reads and writes through the C interface too.
NextFfi ==
    \/ NextClean
    \/ \E hnull \in BOOLEAN, bnull \in BOOLEAN, len \in FfiLens : FfiRead(hnull, bnull, len)
    \/ \E hnull \in BOOLEAN, bnull \in BOOLEAN, len \in FfiLens : FfiWrite(hnull, bnull, len)
    \/ \E utf8 \in BOOLEAN : FfiOpenRead(utf8)
    \/ LastErrorLength
    \/ \E bnull \in BOOLEAN, length \in MessageBufs : LastErrorMessage(bnull, length)

InitFfi == InitWith([pool |-> SmallPayloads, counts |-> {1}, bufs |-> {TransferBufLen},
                     corrupt |-> FALSE, denied |-> {}, seeks |-> {}, build |-> "checked",
                     faults |-> { "NotFound", "Other" }], MaxFfiWrites)

SpecFfi == InitFfi /\ [][NextFfi]_vars

\* wrapping_cmp applied to two generation bytes, both ways round.
Compare ==
    /\ cmp.ab = "none"
    /\ cmp' = [cmp EXCEPT !.ab = wrapping_cmp(cmp.a, cmp.b),
                          !.ba = wrapping_cmp(cmp.b, cmp.a)]
    /\ UNCHANGED << disk, pc, files, writer, reader, got, outcome, cycle, clean, last, prior,
                    hit, env, budget, peer, ffi >>

\* Every pair of generation bytes.
InitCmp ==
    /\ cmp \in { [NoCmp EXCEPT !.a = a, !.b = b] : a \in Byte, b \in Byte }
    /\ disk = FreshDisk
    /\ pc = "idle"
    /\ files = <<>>
    /\ writer = NoWriter
    /\ reader = NoReader
    /\ got = <<>>
    /\ outcome = "none"
    /\ cycle = 0
    /\ clean = TRUE
    /\ last = NoWrite
    /\ prior = NoPrior
    /\ hit = NoHit
    /\ env = [pool |-> {}, counts |-> {}, bufs |-> {}, corrupt |-> FALSE, denied |-> {},
              seeks |-> {}, build |-> "checked", faults |-> {}]
    /\ budget = 0
    /\ peer = NoPeer
    /\ ffi = NoFfi

SpecCmp == InitCmp /\ [][Compare]_vars

\* The seeks a caller of the Reader makes: from the start, relative, from the
\* end, by up to MaxSeek bytes either way.
Seeks ==
    { << "Start", n >> : n \in 0..MaxSeek }
        \cup { << w, n >> : w \in { "Current", "End" }, n \in (0 - MaxSeek)..MaxSeek }

\* The steps of a caller that also seeks in the Reader.
NextSeek ==
    \/ NextClean
    \/ \E sk \in env.seeks : ReaderSeek(sk[1], sk[2])

\* Such a caller reads a byte or a buffer at a time, in any build.
InitSeek ==
    /\ InitWith([pool |-> SmallPayloads, counts |-> {1}, bufs |-> {1, TransferBufLen},
                 corrupt |-> FALSE, denied |-> {}, seeks |-> Seeks, build |-> "checked", faults |-> {}],
                MaxSeekWrites)
       \/ InitWith([pool |-> SmallPayloads, counts |-> {1}, bufs |-> {1, TransferBufLen},
                 corrupt |-> FALSE, denied |-> {}, seeks |-> Seeks, build |-> "wrapping64", faults |-> {}],
                MaxSeekWrites)
       \/ InitWith([pool |-> SmallPayloads, counts |-> {1}, bufs |-> {1, TransferBufLen},
                 corrupt |-> FALSE, denied |-> {}, seeks |-> Seeks, build |-> "wrapping32", faults |-> {}],
                MaxSeekWrites)

SpecSeek == InitSeek /\ [][NextSeek]_vars

\* The bytes of the slot files a caller finds on a path it did not write.
FoundBytes == { 0, 1 }

\* Every file of at most n bytes over FoundBytes.
RECURSIVE FoundOfLen(_)
FoundOfLen(n) ==
    IF n = 0 THEN { << >> }
    ELSE FoundOfLen(n - 1)
            \cup { Append(b, v) : b \in { c \in FoundOfLen(n - 1) : Len(c) = n - 1 },
                                  v \in FoundBytes }

\* A path as the caller finds it: `.1` is absent or any short file, `.2` is
\* absent, empty, a file one byte short of the minimum, or the slot a
\* completed write of the empty payload leaves.
FoundDisks ==
    { [s \in Slots |-> IF s = 1 THEN f ELSE g] :
        f \in { NoFile } \cup { File(b) : b \in FoundOfLen(MaxFoundLen) },
        g \in { NoFile, File(<< >>), File(<< 0, 0, 0, 0 >>), File(<< 1, 0, 0, 0, 0 >>) } }

\* The caller opens a path that holds files it did not write, some of which
\* it may not be allowed to open; it writes the payloads of `pool`, `counts`
\* bytes or the whole rest per call, and calls write() at most b times.
InitFoundWith(disks, pool, counts, b) ==
    /\ disk \in disks
    /\ env \in { [pool |-> pool, counts |-> counts, bufs |-> {TransferBufLen},
                   corrupt |-> FALSE, denied |-> d, seeks |-> {}, build |-> "checked", faults |-> {}] :
                 d \in { x \in SUBSET Slots : \A s \in x : disk[s].exists } }
    /\ budget = b
    /\ pc = "idle"
    /\ files = <<>>
    /\ writer = NoWriter
    /\ reader = NoReader
    /\ got = <<>>
    /\ outcome = "none"
    /\ cycle = 0
    /\ clean = TRUE
    /\ last = NoWrite
    /\ prior = NoPrior
    /\ hit = NoHit
    /\ peer = NoPeer
    /\ ffi = NoFfi
    /\ cmp = NoCmp

InitFound == InitFoundWith(FoundDisks, SmallPayloads, {1}, MaxFoundWrites)

SpecFound == InitFound /\ [][Next]_vars

\* Paths on which both slot files exist and neither is a whole slot.
BrokenDisks ==
    { [s \in Slots |-> IF s = 1 THEN File(b) ELSE File(c)] :
        b \in FoundOfLen(MaxBrokenLen), c \in FoundOfLen(MaxBrokenLen) }

\* The caller of such a path writes one byte, or a payload of one probe chunk.
InitBroken == InitFoundWith(BrokenDisks, { << 7 >>, Pattern(ProbeBufLen) }, {ProbeBufLen},
                            MaxFoundWrites)

SpecBroken == InitBroken /\ [][Next]_vars

\* ----------------------------------------------------------------- claims
\* The caller has read the Reader to the end of the stream.
ReadToEnd == pc = "reading" /\ reader.eof

\* The snapshot entry of slot f.
EntryOf(fs, f) == fs[CHOOSE i \in 1..Len(fs) : fs[i].slot = f]

\* No slot of the snapshot is Valid.
NoneValid(fs) == \A i \in 1..Len(fs) : ~fs[i].gen.valid

\* C1: last fully-written generation wins. After any sequence of completed and
\* interrupted writes from a fresh path, open + read() + reading to the end
\* returns the payload of the most recently completed write, and read() fails
\* with AllFilesInvalidError only if no write ever completed.
C1_LastCompletedWriteWins ==
    /\ ReadToEnd => (last.slot # 0 /\ got = last.payload)
    /\ (pc = "done" /\ outcome = "AllFilesInvalidError") => last.slot = 0
    /\ (pc = "done" /\ outcome = "aborted") => FALSE

\* C2: an interrupted write never destroys the previous valid generation. If a
\* slot was Valid when write() was called, then from the truncation until the
\* trailer is appended, and after a crash in between, the file of the slot that
\* held the newest valid generation is unchanged, and the next open + read()
\* succeeds and returns that file's payload.
C2_InterruptedWriteKeepsPrevious ==
    prior.slot # 0 =>
        /\ disk[prior.slot] = File(prior.bytes)
        /\ ReadToEnd => got = PayloadOf(prior.bytes)
        /\ ~(pc = "done" /\ outcome = "AllFilesInvalidError")

\* C4: read() opens the Valid slot whose generation is the wraparound maximum:
\* no Valid slot of the snapshot carries a generation that the wraparound
\* order puts after the one of the slot the Reader is bound to.
C4_ReadOpensWrapNewest ==
    pc = "reading" =>
        /\ EntryOf(files, reader.slot).gen.valid
        /\ \A i \in 1..Len(files) :
              files[i].gen.valid =>
                  wrapping_cmp(files[i].gen.val, EntryOf(files, reader.slot).gen.val)
                      # "Greater"

\* C5: write() targets the least-current slot of the snapshot: an Invalid or
\* Missing slot before any Valid one, between two Valid slots the one with the
\* smaller wraparound generation, `.1` when both are Invalid or Missing; so the
\* target is never the slot that holds the most recently completed write.
C5_WriteTargetsLeastCurrent ==
    pc = "writing" =>
        /\ (\E i \in 1..Len(files) : ~files[i].gen.valid)
              => ~EntryOf(files, writer.slot).gen.valid
        /\ (\A i \in 1..Len(files) : files[i].gen.valid)
              => \A i \in 1..Len(files) :
                    wrapping_cmp(EntryOf(files, writer.slot).gen.val, files[i].gen.val)
                        # "Greater"
        /\ NoneValid(files) => writer.slot = 1
        /\ writer.slot # last.slot

\* The first three conjuncts of C5 alone: the choice among the snapshot's slots.
C5_TargetChoice ==
    pc = "writing" =>
        /\ (\E i \in 1..Len(files) : ~files[i].gen.valid)
              => ~EntryOf(files, writer.slot).gen.valid
        /\ (\A i \in 1..Len(files) : files[i].gen.valid)
              => \A i \in 1..Len(files) :
                    wrapping_cmp(EntryOf(files, writer.slot).gen.val, files[i].gen.val)
                        # "Greater"
        /\ NoneValid(files) => writer.slot = 1

\* The generations a snapshot lets the claim call "max observed": 0 when no
\* slot is Valid, else the generation of a Valid slot that no other Valid slot
\* is newer than in the wraparound order (either one when the order does not
\* decide).
MaxObserved(fs) ==
    IF NoneValid(fs) THEN {0}
    ELSE LET top == { i \in 1..Len(fs) :
                        /\ fs[i].gen.valid
                        /\ \A j \in 1..Len(fs) :
                              fs[j].gen.valid
                                  => wrapping_cmp(fs[j].gen.val, fs[i].gen.val) # "Greater" }
         IN  IF top = {} THEN { fs[i].gen.val : i \in { j \in 1..Len(fs) : fs[j].gen.valid } }
             ELSE { fs[i].gen.val : i \in top }

\* C6: write() stamps its target with (max observed generation among the
\* Valid slots, 0 if none) + 1 mod 256, and that byte is at offset 0 of the
\* target file.
C6_StampIsMaxObservedPlusOne ==
    pc = "writing" =>
        /\ \E g \in MaxObserved(files) : writer.gen = (g + 1) % U8
        /\ disk[writer.slot].bytes[1] = writer.gen

\* C7: alternation. While every write cycle from the fresh path completes,
\* cycle i has written `.1` if i is odd and `.2` if i is even, and the
\* generation byte of that slot file is i mod 256.
C7_Alternation ==
    (clean /\ pc = "done" /\ outcome = "released") =>
        /\ writer.slot = (IF cycle % 2 = 1 THEN 1 ELSE 2)
        /\ disk[writer.slot].bytes[1] = cycle

\* C9: releasing a Writer leaves the slot file as generation byte ++ payload ++
\* one 4-byte little-endian trailer, the trailer being CRC32 over
\* (generation byte ++ payload).
C9_TrailerCoversGenerationAndPayload ==
    (pc = "done" /\ outcome = "released") =>
        disk[writer.slot].bytes =
            << writer.gen >> \o writer.sent
                \o ToLeBytes(DigestFinalize(DigestUpdate(DigestNew, << writer.gen >> \o writer.sent)))

\* The snapshot of a path with no Valid slot at all, as new() builds it.
EmptySnapshot == << [slot |-> 1, gen |-> None], [slot |-> 2, gen |-> None] >>

\* C10: fresh path. Opening a path with neither slot file present succeeds;
\* read() on that snapshot fails with AllFilesInvalidError; write() on it
\* creates `.1` with generation byte 1, and after release with an empty payload
\* the file is the generation byte followed by the 4-byte trailer only.
C10_FreshPath ==
    /\ (disk = FreshDisk /\ pc # "idle") => (pc \in {"opened", "done"} /\ outcome # "aborted")
    /\ (disk = FreshDisk /\ pc = "opened") => files = EmptySnapshot
    /\ (disk = FreshDisk /\ pc = "done") => outcome = "AllFilesInvalidError"
    /\ (files = EmptySnapshot /\ pc = "writing") =>
          /\ writer.slot = 1
          /\ writer.gen = 1
          /\ disk[1].exists
          /\ disk[1].bytes[1] = 1
    /\ (files = EmptySnapshot /\ pc = "done" /\ outcome = "released" /\ writer.sent = <<>>) =>
          disk[1] = File(<< 1, 0, 0, 0, 0 >>)

\* C10's case: the first write ever on a fresh path, with an empty payload, has
\* been released.
C10_Witness ==
    /\ pc = "done"
    /\ outcome = "released"
    /\ files = EmptySnapshot
    /\ writer.sent = <<>>
    /\ ~disk[2].exists
    /\ cycle = 1

\* C3: round trip. After a write cycle that completed (open, write(), the whole
\* payload written, the Writer released), with no write interrupted before, a
\* new open succeeds, read() succeeds and reading to the end of the stream
\* yields exactly the payload written.
C3_RoundTrip ==
    (clean /\ last.slot # 0) =>
        /\ ReadToEnd => got = last.payload
        /\ ~(pc = "done" /\ outcome \in {"aborted", "AllFilesInvalidError"})

\* C8: corruption tolerance. Once one byte of a Valid slot file has changed
\* (generation byte, payload byte or trailer byte), the next scan finds the slot
\* Invalid; read() then succeeds with the other slot's content if that slot is
\* Valid, and fails with AllFilesInvalidError if not.
C8_CorruptionTolerance ==
    (hit.slot # 0 /\ files # <<>>) =>
        /\ ~EntryOf(files, hit.slot).gen.valid
        /\ pc = "reading" =>
              (reader.slot # hit.slot /\ EntryOf(files, reader.slot).gen.valid)
        /\ ReadToEnd => got = PayloadOf(disk[reader.slot].bytes)
        /\ (pc = "done" /\ outcome = "AllFilesInvalidError") => NoneValid(files)

\* C8 without the generation byte: a changed payload or trailer byte.
C8_PayloadOrTrailerByte ==
    (hit.slot # 0 /\ hit.at > 1 /\ files # <<>>) =>
        /\ ~EntryOf(files, hit.slot).gen.valid
        /\ pc = "reading" =>
              (reader.slot # hit.slot /\ EntryOf(files, reader.slot).gen.valid)
        /\ ReadToEnd => got = PayloadOf(disk[reader.slot].bytes)
        /\ (pc = "done" /\ outcome = "AllFilesInvalidError") => NoneValid(files)

\* C11: AllFilesInvalidError is what read() returns exactly when no slot of
\* the snapshot is Valid, and it does not preclude writing: when both slot
\* files exist and neither is Valid, a write cycle on that snapshot completes
\* and the open + read() that follows returns the payload just written.
C11_AllInvalidOnlyFromReadAndWritable ==
    /\ (pc = "done" /\ outcome = "AllFilesInvalidError") => NoneValid(files)
    /\ pc = "reading" => ~NoneValid(files)
    /\ (clean /\ cycle = 1 /\ Len(last.on) = BUFFER_COUNT /\ NoneValid(last.on)
            /\ last.had = Slots) =>
          /\ ReadToEnd => got = last.payload
          /\ ~(pc = "done" /\ outcome \in {"aborted", "AllFilesInvalidError"})

\* C11 for the error alone: read() fails with AllFilesInvalidError exactly on
\* the snapshots without a Valid slot.
C11_ErrorIffNoneValid ==
    /\ (pc = "done" /\ outcome = "AllFilesInvalidError") => NoneValid(files)
    /\ pc = "reading" => ~NoneValid(files)

\* C12: new(path) returns IoError whenever the probe of a slot fails with a
\* filesystem error other than not-found; such a failure is never turned into
\* a snapshot.
C12_ProbeFailurePropagates ==
    (\E s \in Slots : probe(disk, env.denied, s).kind = "IoError") =>
        (pc # "idle" => (pc = "done" /\ outcome = "IoError"))

\* C13: a slot file of fewer than 5 bytes is Invalid in the snapshot whatever
\* its bytes are, so that no Valid slot is shorter than 5 bytes.
C13_ShortFileInvalid ==
    pc = "opened" =>
        \A i \in 1..Len(files) :
            (disk[files[i].slot].exists /\ Len(disk[files[i].slot].bytes) < 5)
                => ~files[i].gen.valid

\* C13's case: the scan has met a file of 4 bytes, found Invalid, and a file
\* of 5 bytes, found Valid.
C13_Witness ==
    /\ pc = "opened"
    /\ Len(files) = BUFFER_COUNT
    /\ disk[1].exists /\ Len(disk[1].bytes) = 4
    /\ ~files[1].gen.valid
    /\ disk[2].exists /\ Len(disk[2].bytes) = 5
    /\ files[2].gen.valid

\* C14: after any sequence of read and seek calls on a Reader the offset of
\* the file handle is the logical position + 1 and lies within [1, size - 4],
\* and every byte a read returns is a payload byte: none comes from offset 0
\* (the generation byte) or from the last four offsets (the trailer).
C14_ReaderStaysInPayload ==
    pc = "reading" =>
        LET size == Len(disk[reader.slot].bytes)
        IN  /\ reader.offset = reader.pos + 1
            /\ reader.offset >= 1
            /\ reader.offset <= size - TrailerLen
            /\ reader.count > 0 =>
                  (reader.from >= 1 /\ reader.from + reader.count <= size - TrailerLen)

\* C15: seek-from-start(n) puts the file handle at n + 1, seek-from-end(n)
\* puts it at (file end - 4 + n) wherever that is a payload position or the end
\* of the payload, and a seek returns the logical position it reached.
C15_SeekShiftsOffsets ==
    (pc = "reading" /\ reader.sought.whence # "none") =>
        LET size == Len(disk[reader.slot].bytes)
            sk == reader.sought
        IN  /\ sk.whence = "Start" =>
                  (sk.ok /\ reader.offset = sk.n + 1 /\ sk.ret = sk.n)
            /\ (sk.whence = "End" /\ size - TrailerLen + sk.n >= 1) =>
                  (sk.ok /\ reader.offset = size - TrailerLen + sk.n)
            /\ (sk.ok /\ reader.offset >= 1) => sk.ret = reader.offset - 1

\* C15 for the seeks from the start alone.
C15_SeekFromStart ==
    (pc = "reading" /\ reader.sought.whence = "Start") =>
        /\ reader.sought.ok
        /\ reader.offset = reader.sought.n + 1
        /\ reader.sought.ret = reader.sought.n

\* C16: a read returns min(bytes asked, bytes left before the payload
\* boundary), which is 0 at or beyond the boundary, and never fails or aborts,
\* wherever reads and seeks have put the Reader.
C16_ReadClampedAtBoundary ==
    /\ ~(pc = "done" /\ outcome = "aborted" /\ reader.slot # 0)
    /\ (pc = "reading" /\ reader.asked > 0) =>
          reader.count =
              Min(reader.asked,
                  IF reader.useful_file_size > reader.at
                  THEN reader.useful_file_size - reader.at ELSE 0)

\* C17: a Reader that read() bound to a slot before a second process opened
\* the path and called write() keeps its slot file: the slot that write
\* truncates is never the one the Reader is bound to, whatever the two
\* generations on disk are, 255 and 0 included.
C17_BoundReaderKeepsItsSlot ==
    (pc = "reading" /\ reader.early /\ peer.pc \in {"writing", "done"}) =>
        peer.slot # reader.slot

\* The paths the second process starts from are paths the caller's completed
\* write cycles of the empty payload leave.
WrittenDisksAreReached ==
    (clean /\ cycle >= 2 /\ pc = "idle" /\ last.payload = << >>
        /\ \A s \in Slots : Len(disk[s].bytes) = 5) => disk \in WrittenDisks

\* C18: the wraparound comparator is antisymmetric on all of [0,255]:
\* compare(a,b) is Less exactly when compare(b,a) is Greater, and Equal exactly
\* when a = b.
C18_ComparatorAntisymmetric ==
    cmp.ab # "none" =>
        /\ (cmp.ab = "Less") <=> (cmp.ba = "Greater")
        /\ (cmp.ab = "Equal") <=> (cmp.a = cmp.b)

\* C18 away from the distance of half the range.
C18_AntisymmetricOffHalfRange ==
    (cmp.ab # "none" /\ (cmp.a - cmp.b) % U8 # HalfRange) =>
        /\ (cmp.ab = "Less") <=> (cmp.ba = "Greater")
        /\ (cmp.ab = "Equal") <=> (cmp.a = cmp.b)

\* C19: with d the distance from b up to a, counted round the 256 values,
\* compare(a,b) is Equal for d = 0, Greater for d in 1..127 and Less for d in
\* 128..255; so compare(g, g+1 mod 256) is Less for every g, compare(255,0) is
\* Less and compare(0,255) is Greater.
C19_ComparatorByDistance ==
    cmp.ab # "none" =>
        LET d == IF cmp.a >= cmp.b THEN cmp.a - cmp.b ELSE cmp.a + 256 - cmp.b
        IN  /\ d = 0 => cmp.ab = "Equal"
            /\ d \in 1..127 => cmp.ab = "Greater"
            /\ d \in 128..255 => cmp.ab = "Less"
            /\ (cmp.b = cmp.a + 1 \/ (cmp.a = 255 /\ cmp.b = 0)) => cmp.ab = "Less"
            /\ (cmp.a = 0 /\ cmp.b = 255) => cmp.ab = "Greater"

\* C19's case at the edge of the two ranges: generations 128 apart have been
\* compared, and the first came out older.
C19_Witness ==
    /\ cmp.a = 128
    /\ cmp.b = 0
    /\ cmp.ab = "Less"

\* C20: bufferedfile_read and bufferedfile_write return BufferTooLong (-201)
\* when the buffer length is beyond i64::MAX, and InvalidPointer (-202) when
\* the length is in range and the handle or the buffer is null; both leave the
\* handle, the buffer and the files alone and record the error as the last
\* error. Every other call returns the number of bytes transferred, or
\* FileNotFound (-1) or UnknownIoError (-3).
C20_ForeignArgumentChecks ==
    ffi.call \in { "read", "write" } =>
        LET beyond == ffi.len \in { << 32768, 0, 0, 0 >>, USIZE_MAX }
            null == ffi.hnull \/ ffi.bnull
        IN  /\ beyond =>
                  (ffi.ret = -201 /\ ffi.last_error = "BufferTooLong" /\ ffi.kept)
            /\ (~beyond /\ null) =>
                  (ffi.ret = -202 /\ ffi.last_error = "InvalidPointer" /\ ffi.kept)
            /\ (~beyond /\ ~null) => (ffi.ret >= 0 \/ ffi.ret \in { -1, -3 })

\* C20's case: a live Reader and a real buffer were passed with a length just
\* beyond i64::MAX, and the call was refused.
C20_Witness ==
    /\ ffi.call = "read"
    /\ pc = "reading"
    /\ ~ffi.hnull
    /\ ~ffi.bnull
    /\ ffi.len = << 32768, 0, 0, 0 >>
    /\ ffi.ret = -201
    /\ ffi.last_error = "BufferTooLong"

\* C21: LAST_ERROR holds the error of the most recent failed foreign call;
\* last_error_length reports the length of the text that last_error_message
\* then returns; once the message has been read LAST_ERROR is empty and the
\* length reported is 0.
C21_LastErrorSideChannel ==
    /\ (ffi.call \in { "read", "write" } /\ ffi.ret = ErrBufferTooLong)
           => ffi.last_error = "BufferTooLong"
    /\ (ffi.call \in { "read", "write" } /\ ffi.ret = ErrInvalidPointer)
           => ffi.last_error = "InvalidPointer"
    /\ (ffi.call \in { "read", "write" } /\ ffi.ret \in { ErrFileNotFound, ErrUnknownIoError })
           => ffi.last_error = "IoError"
    /\ (ffi.call = "open_read" /\ ffi.hnull)
           => ffi.last_error \in { "NonUtf8Path", "AllFilesInvalidError" }
    /\ (ffi.call = "last_error_message" /\ ffi.text # "None")
           => /\ ffi.last_error = "None"
              /\ ffi.reported # 0 => ffi.ret = ffi.reported
    /\ (ffi.call = "last_error_length" /\ ffi.last_error = "None") => ffi.ret = 0

\* The parts of C21 that do not compare the two lengths.
C21_CellHoldsLatestFailure ==
    /\ (ffi.call \in { "read", "write" } /\ ffi.ret = ErrBufferTooLong)
           => ffi.last_error = "BufferTooLong"
    /\ (ffi.call \in { "read", "write" } /\ ffi.ret = ErrInvalidPointer)
           => ffi.last_error = "InvalidPointer"
    /\ (ffi.call \in { "read", "write" } /\ ffi.ret \in { ErrFileNotFound, ErrUnknownIoError })
           => ffi.last_error = "IoError"
    /\ (ffi.call = "open_read" /\ ffi.hnull)
           => ffi.last_error \in { "NonUtf8Path", "AllFilesInvalidError" }
    /\ (ffi.call = "last_error_message" /\ ffi.text # "None")
           => /\ ffi.last_error = "None"
              /\ ffi.reported # 0 => ffi.ret + 1 = ffi.reported
    /\ (ffi.call = "last_error_length" /\ ffi.last_error = "None") => ffi.ret = 0

\* The file a released Writer leaves for `payload`: a generation byte, the
\* payload, and the CRC of what the Writer folded, least significant byte first.
ReleasedFile(bytes, payload) ==
    /\ Len(bytes) = Len(payload) + 1 + TrailerLen
    /\ PayloadOf(bytes) = payload
    /\ Slice(bytes, Len(bytes) - 3, Len(bytes))
           = ToLeBytes(DigestFinalize(DigestUpdate(DigestNew, payload)))

\* C22: the probe over several chunks holds back the last four bytes and folds
\* every other byte once, in file order, so a slot that a released Writer
\* produced is found Valid by the next open, whatever its length.
C22_ReleasedSlotIsGood ==
    (pc = "opened" /\ last.slot # 0 /\ disk[last.slot].exists
        /\ ReleasedFile(disk[last.slot].bytes, last.payload))
      => EntryOf(files, last.slot).gen.valid

\* The same for the slot files that fit the probe's first chunk.
C22_GoodWithinOneChunk ==
    (pc = "opened" /\ last.slot # 0 /\ disk[last.slot].exists
        /\ Len(disk[last.slot].bytes) <= ProbeBufLen
        /\ ReleasedFile(disk[last.slot].bytes, last.payload))
      => EntryOf(files, last.slot).gen.valid

\* C23: a slot whose Writer was never released holds the generation byte and
\* a prefix of the payload, without trailer; the next open finds it Invalid,
\* whatever the payload and the length of the prefix, and reading then yields
\* the payload of the slot that was newest before the write.
C23_UnreleasedSlotInvalid ==
    (prior.torn # 0 /\ (pc \in { "opened", "reading" }
                          \/ (pc = "done" /\ outcome = "AllFilesInvalidError")))
      => /\ ~EntryOf(files, prior.torn).gen.valid
         /\ (prior.slot # 0 /\ ReadToEnd) => got = PayloadOf(prior.bytes)

\* The same for the prefixes that are not four zero bytes.
C23_InvalidUnlessZeroPrefix ==
    (prior.torn # 0 /\ disk[prior.torn].bytes # << disk[prior.torn].bytes[1] >> \o Fill(0, TrailerLen)
        /\ (pc \in { "opened", "reading" }
               \/ (pc = "done" /\ outcome = "AllFilesInvalidError")))
      => /\ ~EntryOf(files, prior.torn).gen.valid
         /\ (prior.slot # 0 /\ ReadToEnd) => got = PayloadOf(prior.bytes)

\* C24: the snapshot new() returns holds an entry for `.1` and then one for
\* `.2`, whatever each probe returned, and stays so while the handle is used;
\* so write() finds a target and never aborts for lack of one.
C24_SnapshotHasBothSlots ==
    /\ pc \in { "opened", "writing", "reading" }
          => (Len(files) = BUFFER_COUNT /\ \A i \in 1..Len(files) : files[i].slot = i)
    /\ (pc = "done" /\ outcome = "aborted")
          => \E s \in Slots : probe(disk, env.denied, s).kind = "Aborted"

\* The same on paths whose slot files can all be opened.
C24_BothSlotsWhenReadable ==
    (\A s \in Slots : probe(disk, env.denied, s).kind # "IoError")
      => /\ pc \in { "opened", "writing", "reading" }
               => (Len(files) = BUFFER_COUNT /\ \A i \in 1..Len(files) : files[i].slot = i)
         /\ (pc = "done" /\ outcome = "aborted")
               => \E s \in Slots : probe(disk, env.denied, s).kind = "Aborted"

\* C25: the bytes a Writer's write call reports as accepted are in the file
\* and folded into the checksum, in the same order; a short write folds only
\* the accepted bytes and a failed write folds nothing, so the digest covers
\* exactly the payload bytes in the file and the trailer written at release is
\* the checksum of those bytes.
C25_WriterFoldsWhatItWrote ==
    /\ pc = "writing"
          => /\ disk[writer.slot].bytes = << writer.gen >> \o writer.sent
             /\ writer.digest
                    = DigestUpdate(DigestNew, Slice(disk[writer.slot].bytes, 2,
                                                     Len(disk[writer.slot].bytes)))
    /\ (pc = "done" /\ outcome = "released")
          => /\ PayloadOf(disk[writer.slot].bytes) = writer.sent
             /\ Slice(disk[writer.slot].bytes, Len(writer.sent) + 2,
                      Len(disk[writer.slot].bytes))
                    = ToLeBytes(DigestFinalize(DigestUpdate(DigestNew, writer.sent)))

\* C25's case: the file took one byte of a two-byte buffer, and the next
\* write call failed.
C25_Witness ==
    /\ pc = "writing"
    /\ writer.sent = << 7 >>
    /\ writer.rest = << 7 >>
    /\ ffi.call = "write"
    /\ ffi.ret = ErrUnknownIoError

\* C26: for a slot file of any length the probe ends with Good, Invalid or an
\* I/O error and never aborts the caller, also when 1, 2 or 3 bytes are left
\* after a full chunk of 8192 bytes.
C26_ProbeNeverAborts ==
    ~(/\ pc = "done"
      /\ outcome = "aborted"
      /\ \E s \in Slots : check_file(disk[s]).kind = "Aborted")

\* The same for the slot files that leave no 1, 2 or 3 bytes after a chunk.
C26_AbortsOnlyOnShortRest ==
    (pc = "done" /\ outcome = "aborted")
      => \E s \in Slots :
            /\ disk[s].exists
            /\ Len(disk[s].bytes) > ProbeBufLen
            /\ Len(disk[s].bytes) % ProbeBufLen \in 1..(TrailerLen - 1)

\* C27: new(), read() and the Reader's read and seek change no slot file;
\* write() and the Writer's write and release change the file of the target
\* slot only, and leave the other slot's file as it was, byte for byte.
C27_Frame ==
    [][/\ pc \in { "idle", "reading" } => disk' = disk
       /\ (pc = "opened" /\ (pc' = "reading" \/ outcome' = "AllFilesInvalidError"
                               \/ Len(files) = 0))
             => disk' = disk
       /\ (pc = "opened" /\ Len(files) > 0)
             => \A s \in Slots \ { write_target(files) } : disk'[s] = disk[s]
       /\ pc = "writing"
             => \A s \in Slots \ { writer.slot } : disk'[s] = disk[s]]_vars

\* C27's case: a Writer has written payload into its target while the other
\* slot holds the whole file of an earlier write.
C27_Witness ==
    /\ pc = "writing"
    /\ writer.sent # <<>>
    /\ \E s \in Slots \ { writer.slot } :
          /\ disk[s].exists
          /\ Len(disk[s].bytes) > 1 + TrailerLen

\* C28: after any mix of completed and interrupted writes from a fresh path,
\* whenever both slots are Valid their generations differ by exactly 1 modulo
\* 256, and the slot of the most recently completed write carries the larger.
C28_ValidGenerationsAdjacent ==
    (pc = "opened" /\ Len(files) = BUFFER_COUNT
        /\ \A i \in 1..Len(files) : files[i].gen.valid)
      => /\ \/ files[1].gen.val = wrapping_add1(files[2].gen.val)
            \/ files[2].gen.val = wrapping_add1(files[1].gen.val)
         /\ last.slot # 0
               => \A s \in Slots \ { last.slot } :
                     EntryOf(files, last.slot).gen.val
                        = wrapping_add1(EntryOf(files, s).gen.val)

============================================================================
